---- MODULE Spec2Model ----
(***************************************************************************)
(* A model of battery_cell_app.py: the Streamlit session state (cell       *)
(* store, task store, task counter), the form and button handlers that     *)
(* change it, and the pure helpers (presets, CC/CP validator, capacity,    *)
(* timeline, cells summary, JSON export).                                  *)
(*                                                                         *)
(* Representation.                                                         *)
(*  - A Python str is a sequence of one-character strings.                 *)
(*  - A Python dict (insertion ordered) is a sequence of [key, val]        *)
(*    entries; assignment to an existing key replaces the value in place.  *)
(*  - f"task_{n}" is the integer n; f"cell_{n}_{tag}" is [id, tag].        *)
(*  - Floats are fixed-point integers: volts and amperes in tenths,        *)
(*    capacity in hundredths, temperature in tenths of a degree.  A float  *)
(*    quotient a / b is the pair <<a, b>>.                                 *)
(***************************************************************************)
EXTENDS Integers, Sequences, FiniteSets, TLC

\* ------------------------------------------------------------------ bounds
\* longest string enumerated for the validator
MaxLen == 3
\* most records the cell store grows to when the cell form is varied
MaxCells == 2
\* largest value the task counter grows to when the task form is varied
MaxCounter == 3
\* most records the cell store grows to otherwise
FewCells == 1
\* largest value the task counter grows to otherwise
FewCounter == 1

VARIABLES cells_data, tasks_data, task_counter, error_messages,
          last_run, before, issued, probe

vars == <<cells_data, tasks_data, task_counter, error_messages,
          last_run, before, issued, probe>>

\* ----------------------------------------------------------------- strings
Digits == {"0", "1", "5"}

Whitespace == {" "}

\* the characters strings are built from
Chars == Digits \cup Whitespace \cup {".", "-", "+", "A", "a", "W", "w", "X", "E", "N"}

\* str.upper() on one character of Chars
UpperChar(c) ==
    CASE c = "a" -> "A"
      [] c = "w" -> "W"
      [] c = "l" -> "L"
      [] c = "f" -> "F"
      [] c = "p" -> "P"
      [] c = "n" -> "N"
      [] c = "m" -> "M"
      [] c = "c" -> "C"
      [] c = "t" -> "T"
      [] c = "o" -> "O"
      [] OTHER -> c

\* str.lower() on one character
LowerChar(c) ==
    CASE c = "A" -> "a"
      [] c = "W" -> "w"
      [] c = "L" -> "l"
      [] c = "F" -> "f"
      [] c = "P" -> "p"
      [] c = "N" -> "n"
      [] c = "M" -> "m"
      [] c = "C" -> "c"
      [] c = "T" -> "t"
      [] c = "O" -> "o"
      [] c = "X" -> "x"
      [] c = "E" -> "e"
      [] OTHER -> c

Upper(s) == [i \in 1..Len(s) |-> UpperChar(s[i])]

Lower(s) == [i \in 1..Len(s) |-> LowerChar(s[i])]

RECURSIVE LStrip(_)
LStrip(s) ==
    IF s # <<>> /\ Head(s) \in Whitespace THEN LStrip(Tail(s)) ELSE s

RECURSIVE RStrip(_)
RStrip(s) ==
    IF s # <<>> /\ s[Len(s)] \in Whitespace
    THEN RStrip(SubSeq(s, 1, Len(s) - 1))
    ELSE s

\* str.strip()
Strip(s) == RStrip(LStrip(s))

\* s.endswith(c) for a one-character c
EndsWith(s, c) == s # <<>> /\ s[Len(s)] = c

\* s[:-1]
DropLast(s) == IF s = <<>> THEN <<>> ELSE SubSeq(s, 1, Len(s) - 1)

AllDigits(s) == \A i \in 1..Len(s) : s[i] \in Digits

\* the mantissa of a decimal literal: digits, at most one point, one digit at least
IsMantissa(m) ==
    LET points == {i \in 1..Len(m) : m[i] = "."}
    IN  \/ /\ points = {}
           /\ m # <<>>
           /\ AllDigits(m)
        \/ /\ Cardinality(points) = 1
           /\ LET p == CHOOSE i \in points : TRUE
                  ip == SubSeq(m, 1, p - 1)
                  fp == SubSeq(m, p + 1, Len(m))
              IN  /\ AllDigits(ip)
                  /\ AllDigits(fp)
                  /\ Len(ip) + Len(fp) >= 1

\* an optional sign removed
Unsigned(s) == IF s # <<>> /\ Head(s) \in {"+", "-"} THEN Tail(s) ELSE s

\* the exponent of a decimal literal: an optional sign and one digit at least
IsExponent(e) == Unsigned(e) # <<>> /\ AllDigits(Unsigned(e))

\* whether float(s) returns (TRUE) or raises ValueError (FALSE), for s over Chars
FloatParses(s) ==
    LET u == Unsigned(Strip(s))
        U == Upper(u)
        es == {i \in 1..Len(U) : U[i] = "E"}
    IN  \/ U \in {<<"N", "A", "N">>, <<"I", "N", "F">>,
                  <<"I", "N", "F", "I", "N", "I", "T", "Y">>}
        \/ /\ es = {}
           /\ IsMantissa(u)
        \/ /\ es # {}
           /\ LET e == CHOOSE i \in es : \A j \in es : i <= j
              IN  /\ IsMantissa(SubSeq(u, 1, e - 1))
                  /\ IsExponent(SubSeq(u, e + 1, Len(u)))

MsgEmpty == "Input cannot be empty"

MsgValid == "Valid format"

MsgBadNumber == "Invalid number format"

MsgBadSuffix == "Must end with 'A' (Amperes) or 'W' (Watts)"

validate_cc_cp_input(input_str) ==
    IF input_str = <<>>
    THEN [is_valid |-> FALSE, msg |-> MsgEmpty]
    ELSE LET s == Upper(Strip(input_str))
         IN  IF EndsWith(s, "A") \/ EndsWith(s, "W")
             THEN IF FloatParses(DropLast(s))
                  THEN [is_valid |-> TRUE, msg |-> MsgValid]
                  ELSE [is_valid |-> FALSE, msg |-> MsgBadNumber]
             ELSE [is_valid |-> FALSE, msg |-> MsgBadSuffix]

\* ----------------------------------------------------------------- presets
TagLFP == <<"L", "F", "P">>

TagNMC == <<"N", "M", "C">>

TagLTO == <<"L", "T", "O">>

TagLCO == <<"L", "C", "O">>

\* the options of the "Cell Type" selectbox
CellTypes == {TagLFP, TagNMC, TagLTO, TagLCO}

\* get_cell_parameters comparing the tag without lower-casing it
get_cell_parameters_NoLower(cell_type) ==
    IF cell_type = <<"l", "f", "p">>
    THEN [voltage |-> 32, min_voltage |-> 28, max_voltage |-> 36]
    ELSE [voltage |-> 36, min_voltage |-> 32, max_voltage |-> 40]

get_cell_parameters(cell_type) ==
    IF Lower(cell_type) = <<"l", "f", "p">>
    THEN [voltage |-> 32, min_voltage |-> 28, max_voltage |-> 36]
    ELSE [voltage |-> 36, min_voltage |-> 32, max_voltage |-> 40]

\* round(voltage * current, 2): tenths times tenths is exact in hundredths
calculate_capacity(voltage, current) == voltage * current

\* ------------------------------------------------------------- dictionaries
Keys(d) == {d[i].key : i \in 1..Len(d)}

\* d[k] = v: a new key is appended, an existing key keeps its position
DictSet(d, k, v) ==
    IF k \in Keys(d)
    THEN [i \in 1..Len(d) |-> IF d[i].key = k THEN [key |-> k, val |-> v] ELSE d[i]]
    ELSE Append(d, [key |-> k, val |-> v])

\* del d[k]
DictDel(d, k) == SelectSeq(d, LAMBDA e : e.key # k)

\* the session state a handler starts from
Snapshot == [cells_data |-> cells_data, tasks_data |-> tasks_data,
             task_counter |-> task_counter]

NoProbe == [fn |-> "none"]

\* --------------------------------------------------------------- cell form
\* the key f"cell_{cell_id}_{cell_type.lower()}"
CellKey(cell_id, cell_type) == [id |-> cell_id, tag |-> Lower(cell_type)]

\* AddCellsLoop with cell_id taken from the loop index instead of the store size
RECURSIVE AddCellsLoop_IndexId(_, _, _, _, _, _, _, _, _)
AddCellsLoop_IndexId(cells, i, num_cells, cell_type, voltage, min_voltage, max_voltage, current, temps) ==
    IF i > num_cells
    THEN cells
    ELSE LET cell_id == i
             cell_key == CellKey(cell_id, cell_type)
             rec == [cell_type |-> cell_type,
                     voltage |-> voltage,
                     current |-> current,
                     temperature |-> temps[i],
                     capacity |-> calculate_capacity(voltage, current),
                     min_voltage |-> min_voltage,
                     max_voltage |-> max_voltage]
         IN  AddCellsLoop_IndexId(DictSet(cells, cell_key, rec), i + 1, num_cells,
                                  cell_type, voltage, min_voltage, max_voltage,
                                  current, temps)

\* iterations i..num_cells of the loop over range(num_cells); temps[i] is the
\* temperature random.uniform draws in iteration i
RECURSIVE AddCellsLoop(_, _, _, _, _, _, _, _, _)
AddCellsLoop(cells, i, num_cells, cell_type, voltage, min_voltage, max_voltage, current, temps) ==
    IF i > num_cells
    THEN cells
    ELSE LET cell_id == Len(cells) + 1
             cell_key == CellKey(cell_id, cell_type)
             rec == [cell_type |-> cell_type,
                     voltage |-> voltage,
                     current |-> current,
                     temperature |-> temps[i],
                     capacity |-> calculate_capacity(voltage, current),
                     min_voltage |-> min_voltage,
                     max_voltage |-> max_voltage]
         IN  AddCellsLoop(DictSet(cells, cell_key, rec), i + 1, num_cells, cell_type,
                          voltage, min_voltage, max_voltage, current, temps)

\* "Add Cells" pressed; custom holds the three number inputs of the
\* "Custom Voltage Settings" branch
CellSubmit(cell_type, num_cells, custom_voltage, custom, current, temps) ==
    LET params == IF custom_voltage THEN custom ELSE get_cell_parameters(cell_type)
    IN  /\ cells_data' = AddCellsLoop(cells_data, 1, num_cells, cell_type,
                                      params.voltage, params.min_voltage,
                                      params.max_voltage, current, temps)
        /\ error_messages' = <<>>
        /\ last_run' = [op |-> "cell_submit", cell_type |-> cell_type,
                        num_cells |-> num_cells, custom_voltage |-> custom_voltage]
        /\ before' = Snapshot
        /\ UNCHANGED <<tasks_data, task_counter, issued, probe>>

\* --------------------------------------------------------------- task form
TaskTypes == {"CC_CV", "IDLE", "CC_CD"}

\* the record stored for a task; nums holds the number inputs of the form
TaskData(task_type, time_seconds, cc_input, nums) ==
    CASE task_type = "CC_CV" ->
           [task_type |-> task_type, time_seconds |-> time_seconds,
            cc_cp |-> cc_input, cv_voltage |-> nums.cv_voltage,
            current |-> nums.current, capacity |-> nums.capacity]
      [] task_type = "CC_CD" ->
           [task_type |-> task_type, time_seconds |-> time_seconds,
            cc_cp |-> cc_input, voltage |-> nums.voltage,
            capacity |-> nums.capacity]
      [] OTHER ->
           [task_type |-> task_type, time_seconds |-> time_seconds]

\* the messages collected by the validation step of the submit handler
TaskErrors(task_type, cc_input) ==
    IF task_type \in {"CC_CV", "CC_CD"} /\ ~validate_cc_cp_input(cc_input).is_valid
    THEN <<<<"CC/CP Input: ", validate_cc_cp_input(cc_input).msg>>>>
    ELSE <<>>

\* TaskSubmit with the counter incremented before the validation step
TaskSubmit_CounterFirst(task_type, time_seconds, cc_input, nums) ==
    LET errs == TaskErrors(task_type, cc_input)
        valid == errs = <<>>
    IN  /\ task_counter < MaxCounter
        /\ task_counter' = task_counter + 1
        /\ IF valid
           THEN /\ tasks_data' = DictSet(tasks_data, task_counter + 1,
                                         TaskData(task_type, time_seconds, cc_input, nums))
                /\ issued' = Append(issued, task_counter + 1)
                /\ error_messages' = <<>>
           ELSE /\ error_messages' = errs
                /\ UNCHANGED <<tasks_data, issued>>
        /\ last_run' = [op |-> "task_submit", task_type |-> task_type,
                        cc_input |-> cc_input, valid |-> valid]
        /\ before' = Snapshot
        /\ UNCHANGED <<cells_data, probe>>

\* "Add Task" pressed
TaskSubmit(task_type, time_seconds, cc_input, nums) ==
    LET errs == TaskErrors(task_type, cc_input)
        valid == errs = <<>>
    IN  /\ IF valid
           THEN /\ task_counter' = task_counter + 1
                /\ tasks_data' = DictSet(tasks_data, task_counter + 1,
                                         TaskData(task_type, time_seconds, cc_input, nums))
                /\ issued' = Append(issued, task_counter + 1)
                /\ error_messages' = <<>>
           ELSE /\ error_messages' = errs
                /\ UNCHANGED <<task_counter, tasks_data, issued>>
        /\ last_run' = [op |-> "task_submit", task_type |-> task_type,
                        cc_input |-> cc_input, valid |-> valid]
        /\ before' = Snapshot
        /\ UNCHANGED <<cells_data, probe>>

\* TaskDelete that removes the k-th listed task instead of the task keyed k
TaskDelete_ByPosition(k) ==
    /\ tasks_data' = IF k \in 1..Len(tasks_data)
                     THEN SubSeq(tasks_data, 1, k - 1) \o SubSeq(tasks_data, k + 1, Len(tasks_data))
                     ELSE tasks_data
    /\ error_messages' = <<>>
    /\ last_run' = [op |-> "delete", key |-> k]
    /\ before' = Snapshot
    /\ UNCHANGED <<cells_data, task_counter, issued, probe>>

\* TaskDelete that also gives the deleted task's number back to the counter
TaskDelete_Renumber(k) ==
    /\ tasks_data' = DictDel(tasks_data, k)
    /\ task_counter' = IF k \in Keys(tasks_data) THEN task_counter - 1 ELSE task_counter
    /\ error_messages' = <<>>
    /\ last_run' = [op |-> "delete", key |-> k]
    /\ before' = Snapshot
    /\ UNCHANGED <<cells_data, issued, probe>>

\* a click on the button keyed delete_task_<k>: the loop over the store renders one
\* button per stored task, and the button whose key was clicked deletes its task
TaskDelete(k) ==
    /\ tasks_data' = IF \E i \in 1..Len(tasks_data) : tasks_data[i].key = k
                     THEN DictDel(tasks_data, k)
                     ELSE tasks_data
    /\ error_messages' = <<>>
    /\ last_run' = [op |-> "delete", key |-> k]
    /\ before' = Snapshot
    /\ UNCHANGED <<cells_data, task_counter, issued, probe>>

\* reset_all_data that leaves the counter alone
reset_all_data_KeepCounter ==
    /\ cells_data' = <<>>
    /\ tasks_data' = <<>>
    /\ task_counter' = task_counter
    /\ issued' = <<>>
    /\ error_messages' = <<>>
    /\ last_run' = [op |-> "reset"]
    /\ before' = Snapshot
    /\ UNCHANGED probe

\* "Reset All" pressed
reset_all_data ==
    /\ cells_data' = <<>>
    /\ tasks_data' = <<>>
    /\ task_counter' = 0
    /\ issued' = <<>>
    /\ error_messages' = <<>>
    /\ last_run' = [op |-> "reset"]
    /\ before' = Snapshot
    /\ UNCHANGED probe

\* ------------------------------------------------------------------ export
DecimalDigits == <<"0", "1", "2", "3", "4", "5", "6", "7", "8", "9">>

\* str(n) for n >= 0
RECURSIVE DigitsOf(_)
DigitsOf(n) ==
    IF n < 10
    THEN <<DecimalDigits[n + 1]>>
    ELSE DigitsOf(n \div 10) \o <<DecimalDigits[(n % 10) + 1]>>

\* the text of the key f"cell_{cell_id}_{cell_type.lower()}"
CellKeyString(key) ==
    <<"c", "e", "l", "l", "_">> \o DigitsOf(key.id) \o <<"_">> \o key.tag

\* the text of the key f"task_{task_counter}"
TaskKeyString(key) == <<"t", "a", "s", "k", "_">> \o DigitsOf(key)

\* the JSON object json.dumps writes for the cell store: one member per entry, in
\* store order, named by the key's text; numbers and strings are written in full
CellsJson(cells) ==
    [i \in 1..Len(cells) |-> [name |-> CellKeyString(cells[i].key), value |-> cells[i].val]]

\* the JSON object json.dumps writes for the task store
TasksJson(tasks) ==
    [i \in 1..Len(tasks) |-> [name |-> TaskKeyString(tasks[i].key), value |-> tasks[i].val]]

\* export_data with "tasks" filled from the cell store
export_data_CellsTwice(timestamp) ==
    [timestamp |-> timestamp,
     cells |-> CellsJson(cells_data),
     tasks |-> CellsJson(cells_data)]

\* the document export_data returns; timestamp is datetime.now().isoformat()
export_data(timestamp) ==
    [timestamp |-> timestamp,
     cells |-> CellsJson(cells_data),
     tasks |-> TasksJson(tasks_data)]

\* "Export JSON" pressed: the document is handed to the download button
ExportJson(timestamp) ==
    /\ last_run' = [op |-> "export", export_json |-> export_data(timestamp)]
    /\ before' = Snapshot
    /\ error_messages' = <<>>
    /\ UNCHANGED <<cells_data, tasks_data, task_counter, issued, probe>>

\* ---------------------------------------------------------------- timeline
\* TimelineLoop that never advances cumulative_time
RECURSIVE TimelineLoop_NoAdvance(_, _, _, _)
TimelineLoop_NoAdvance(tasks, i, cumulative_time, timeline_data) ==
    IF i > Len(tasks)
    THEN timeline_data
    ELSE LET start_time == cumulative_time
             end_time == cumulative_time + tasks[i].val.time_seconds
         IN  TimelineLoop_NoAdvance(tasks, i + 1, start_time,
                                    Append(timeline_data,
                                           [Task |-> tasks[i].key, Start |-> start_time,
                                            Finish |-> end_time,
                                            Type |-> tasks[i].val.task_type]))

\* the loop over tasks_data.items() from entry i on
RECURSIVE TimelineLoop(_, _, _, _)
TimelineLoop(tasks, i, cumulative_time, timeline_data) ==
    IF i > Len(tasks)
    THEN timeline_data
    ELSE LET start_time == cumulative_time
             end_time == cumulative_time + tasks[i].val.time_seconds
         IN  TimelineLoop(tasks, i + 1, end_time,
                          Append(timeline_data,
                                 [Task |-> tasks[i].key, Start |-> start_time,
                                  Finish |-> end_time, Type |-> tasks[i].val.task_type]))

\* the rows of the Gantt chart; <<>> when the chart is not built
Timeline(tasks) ==
    IF Len(tasks) > 1 THEN TimelineLoop(tasks, 1, 0, <<>>) ELSE <<>>

\* sum(xs), left to right from 0
RECURSIVE Sum(_)
Sum(xs) == IF xs = <<>> THEN 0 ELSE Sum(SubSeq(xs, 1, Len(xs) - 1)) + xs[Len(xs)]

\* [e[field] for e in d.values()]
Values(d, field) == [i \in 1..Len(d) |-> d[i].val[field]]

\* "Total Duration" of the tasks summary, computed only when it is shown
total_duration(tasks) ==
    IF tasks # <<>>
    THEN [shown |-> TRUE, value |-> Sum(Values(tasks, "time_seconds"))]
    ELSE [shown |-> FALSE]

\* ----------------------------------------------------------- cells summary
\* a / b in Python floats: the quotient num / den, or ZeroDivisionError raised
Divide(a, b) == [num |-> a, den |-> b, raises |-> b = 0]

\* CellsSummary without the check that the store is non-empty
CellsSummary_Unguarded(cells) ==
    [shown |-> TRUE,
     total_capacity |-> Sum(Values(cells, "capacity")),
     avg_temp |-> Divide(Sum(Values(cells, "temperature")), Len(cells)),
     avg_voltage |-> Divide(Sum(Values(cells, "voltage")), Len(cells))]

\* the three metrics of the cells summary, computed only when it is shown
CellsSummary(cells) ==
    IF cells # <<>>
    THEN [shown |-> TRUE,
          total_capacity |-> Sum(Values(cells, "capacity")),
          avg_temp |-> Divide(Sum(Values(cells, "temperature")), Len(cells)),
          avg_voltage |-> Divide(Sum(Values(cells, "voltage")), Len(cells))]
    ELSE [shown |-> FALSE]

\* --------------------------------------------------------- validator probe
\* validate_cc_cp_input applied to the probed string
ApplyValidator ==
    /\ probe.fn = "validate"
    /\ ~probe.done
    /\ probe' = [probe EXCEPT !.done = TRUE,
                              !.out = validate_cc_cp_input(probe.input)]
    /\ UNCHANGED <<cells_data, tasks_data, task_counter, error_messages,
                   last_run, before, issued>>

\* ------------------------------------------------------------------ inputs
\* strings over Chars of length at most n
AllStrings(n) == UNION {[1..k -> Chars] : k \in 0..n}

S_5A == <<"5", "A">>

S_10p5W == <<"1", "0", ".", "5", "W">>

S_5 == <<"5">>

S_5X == <<"5", "X">>

S_A == <<"A">>

S_blank == <<" ">>

S_minus5A == <<"-", "5", "A">>

\* the strings the validator is probed with
ValidatorInputs == AllStrings(MaxLen) \cup {S_5A, S_10p5W, <<>>, S_5, S_5X, S_A}

\* the number inputs of the task form at their default values
DefaultNums == [cv_voltage |-> 36, current |-> 10, capacity |-> 10, voltage |-> 32]

\* values of the three custom voltage inputs (each within 0.1 .. 5.0)
CustomVoltages == {[voltage |-> 50, min_voltage |-> 28, max_voltage |-> 36]}

\* form inputs that vary the task store and keep the cell store plain
TaskFocus ==
    [cell_types |-> {TagLFP}, num_cells |-> {1}, custom |-> {FALSE},
     currents |-> {0}, temps |-> {250}, max_cells |-> FewCells,
     task_types |-> {"IDLE", "CC_CV"}, times |-> {30, 60, 90},
     cc_inputs |-> {S_5A, S_5X}, max_counter |-> MaxCounter,
     timestamps |-> {"2026-01-01T10:00:00", "2026-01-01T10:00:01"}]

\* form inputs that vary the CC/CP text
InputFocus ==
    [cell_types |-> {TagLFP}, num_cells |-> {1}, custom |-> {FALSE},
     currents |-> {0}, temps |-> {250}, max_cells |-> FewCells,
     task_types |-> TaskTypes, times |-> {60},
     cc_inputs |-> {<<>>, S_blank, S_5X, S_A, S_5A, S_minus5A},
     max_counter |-> MaxCounter, timestamps |-> {"2026-01-01T10:00:00"}]

\* form inputs that vary the cell store and keep the task store plain
CellFocus ==
    [cell_types |-> CellTypes, num_cells |-> 1..2, custom |-> BOOLEAN,
     currents |-> {20}, temps |-> {250, 400}, max_cells |-> MaxCells,
     task_types |-> {"IDLE", "CC_CD"}, times |-> {60},
     cc_inputs |-> {S_5X}, max_counter |-> FewCounter,
     timestamps |-> {"2026-01-01T10:00:00"}]

\* ----------------------------------------------------------- specifications
InitStores ==
    /\ cells_data = <<>>
    /\ tasks_data = <<>>
    /\ task_counter = 0
    /\ error_messages = <<>>
    /\ last_run = [op |-> "init"]
    /\ before = [cells_data |-> <<>>, tasks_data |-> <<>>, task_counter |-> 0]
    /\ issued = <<>>

Init ==
    /\ InitStores
    /\ probe = NoProbe

NextWith(in) ==
    \/ \E cell_type \in in.cell_types, num_cells \in in.num_cells,
          custom_voltage \in in.custom, custom \in CustomVoltages,
          current \in in.currents :
          \E temps \in [1..num_cells -> in.temps] :
             /\ Len(cells_data) + num_cells <= in.max_cells
             /\ CellSubmit(cell_type, num_cells, custom_voltage, custom, current, temps)
    \/ \E task_type \in in.task_types, time_seconds \in in.times :
          \E cc_input \in IF task_type = "IDLE" THEN {<<>>} ELSE in.cc_inputs :
             /\ TaskErrors(task_type, cc_input) = <<>> => task_counter < in.max_counter
             /\ TaskSubmit(task_type, time_seconds, cc_input, DefaultNums)
    \/ \E k \in 1..in.max_counter : TaskDelete(k)
    \/ reset_all_data
    \/ \E timestamp \in in.timestamps : ExportJson(timestamp)

Next == NextWith(TaskFocus)

Spec == Init /\ [][Next]_vars

NextInput == NextWith(InputFocus)

SpecInput == Init /\ [][NextInput]_vars

NextCells == NextWith(CellFocus)

SpecCells == Init /\ [][NextCells]_vars

InitValidator ==
    /\ InitStores
    /\ probe \in {[fn |-> "validate", input |-> s, done |-> FALSE, out |-> "none"] :
                    s \in ValidatorInputs}

NextValidator == ApplyValidator

SpecValidator == InitValidator /\ [][NextValidator]_vars

\* ------------------------------------------------------------------ claims
\* the last run was a task submission of a CC task whose CC/CP text the validator rejects
RejectedSubmit ==
    /\ last_run.op = "task_submit"
    /\ last_run.task_type \in {"CC_CV", "CC_CD"}
    /\ ~validate_cc_cp_input(last_run.cc_input).is_valid

\* C1: a CC_CV or CC_CD submission whose CC/CP string the validator rejects leaves the
\* task store, the task counter and the cell store as they were and reports at least
\* one error message.
C1_RejectedSubmitKeepsState ==
    RejectedSubmit =>
        /\ tasks_data = before.tasks_data
        /\ task_counter = before.task_counter
        /\ cells_data = before.cells_data
        /\ Len(error_messages) >= 1

C1_Witness ==
    /\ RejectedSubmit
    /\ last_run.task_type = "CC_CD"
    /\ Len(tasks_data) >= 2
    /\ cells_data # <<>>

\* the last run was a task submission that passed validation
AcceptedSubmit == last_run.op = "task_submit" /\ last_run.valid

\* C2: between resets task ids are issued in strictly increasing order, so no id is
\* issued twice even after its task was deleted; a newly added task carries the id
\* just issued, larger than every id in the store before; stored ids are pairwise
\* distinct.
C2_TaskIdsIncreaseNeverReused ==
    /\ \A i, j \in 1..Len(issued) : i < j => issued[i] < issued[j]
    /\ \A i, j \in 1..Len(tasks_data) : i # j => tasks_data[i].key # tasks_data[j].key
    /\ AcceptedSubmit =>
          /\ tasks_data # <<>>
          /\ tasks_data[Len(tasks_data)].key = issued[Len(issued)]
          /\ \A k \in Keys(before.tasks_data) : k < tasks_data[Len(tasks_data)].key
          /\ Len(tasks_data) = Len(before.tasks_data) + 1

C2_Witness ==
    /\ AcceptedSubmit
    /\ Len(issued) = 3
    /\ Len(tasks_data) = 2
    /\ issued[2] \notin Keys(tasks_data)

\* C3: reset leaves the cell store empty, the task store empty and the counter zero,
\* and the first task added after it (no id issued since) gets id 1.
C3_ResetRestartsIds ==
    /\ last_run.op = "reset" =>
          /\ cells_data = <<>>
          /\ tasks_data = <<>>
          /\ task_counter = 0
    /\ (AcceptedSubmit /\ Len(issued) = 1) =>
          /\ Len(tasks_data) = 1
          /\ tasks_data[1].key = 1
          /\ task_counter = 1

C3_Witness ==
    /\ last_run.op = "reset"
    /\ before.task_counter = MaxCounter
    /\ Len(before.tasks_data) = 1
    /\ before.cells_data # <<>>

\* d without its p-th entry
Without(d, p) == SubSeq(d, 1, p - 1) \o SubSeq(d, p + 1, Len(d))

\* C4: deleting an id that is not in the task store changes neither the store (length,
\* contents, order) nor the counter and reports no error; deleting a stored id removes
\* exactly that task and leaves the other tasks, their order and the counter unchanged.
C4_DeleteRemovesOnlyThatTask ==
    last_run.op = "delete" =>
        /\ task_counter = before.task_counter
        /\ cells_data = before.cells_data
        /\ error_messages = <<>>
        /\ IF last_run.key \in Keys(before.tasks_data)
           THEN \E p \in 1..Len(before.tasks_data) :
                   /\ before.tasks_data[p].key = last_run.key
                   /\ tasks_data = Without(before.tasks_data, p)
           ELSE tasks_data = before.tasks_data

C4_Witness ==
    /\ last_run.op = "delete"
    /\ last_run.key \notin Keys(before.tasks_data)
    /\ Len(before.tasks_data) = 2
    /\ last_run.key <= before.task_counter

\* the durations of the stored tasks, in store order
Durations(tasks) == [i \in 1..Len(tasks) |-> tasks[i].val.time_seconds]

\* the sum of the durations of the first n tasks
RECURSIVE DurationBefore(_, _)
DurationBefore(tasks, n) ==
    IF n = 0 THEN 0 ELSE tasks[n].val.time_seconds + DurationBefore(tasks, n - 1)

\* tl lays out every task of the store back to back from 0, in store order
SequentialLayout(tl, tasks) ==
    /\ Len(tl) = Len(tasks)
    /\ \A i \in 1..Len(tl) :
          /\ tl[i].Task = tasks[i].key
          /\ tl[i].Finish = tl[i].Start + tasks[i].val.time_seconds
          /\ tl[i].Start = IF i = 1 THEN 0 ELSE tl[i - 1].Finish
    /\ tasks # <<>> => tl[Len(tl)].Finish = DurationBefore(tasks, Len(tasks))

\* C5 as stated: for every task store the timeline lists all remaining tasks back to
\* back from 0, the last finish being the sum of the durations.
C5_Original == SequentialLayout(Timeline(tasks_data), tasks_data)

\* C5: when the store holds at least two tasks the timeline lists all of them in
\* insertion order, the first starting at 0, each finishing at start plus duration,
\* each later one starting at the previous finish, the last finish being the total
\* duration; with fewer than two tasks no timeline is built.  Durations [60, 30, 90]
\* give starts [0, 60, 90] and finishes [60, 90, 180].
C5_TimelineOfTwoOrMore ==
    LET tl == Timeline(tasks_data)
    IN  /\ IF Len(tasks_data) >= 2
           THEN /\ SequentialLayout(tl, tasks_data)
                /\ total_duration(tasks_data) = [shown |-> TRUE, value |-> tl[Len(tl)].Finish]
           ELSE tl = <<>>
        /\ Durations(tasks_data) = <<60, 30, 90>> =>
              /\ [i \in 1..3 |-> tl[i].Start] = <<0, 60, 90>>
              /\ [i \in 1..3 |-> tl[i].Finish] = <<60, 90, 180>>

C5_Witness ==
    /\ Keys(tasks_data) = {1, 3}
    /\ Durations(tasks_data) = <<60, 90>>
    /\ last_run.op = "delete"
    /\ Timeline(tasks_data)[2].Start = 60
    /\ Timeline(tasks_data)[2].Finish = 150

\* the part of s before its last character is a real number in decimal notation:
\* accepted by float() and neither a NaN nor an infinity
PrefixIsReal(s) ==
    /\ FloatParses(DropLast(s))
    /\ Upper(Unsigned(Strip(DropLast(s)))) \notin
          {<<"N", "A", "N">>, <<"I", "N", "F">>, <<"I", "N", "F", "I", "N", "I", "T", "Y">>}

\* the message of the error kind the claim assigns to input s
ClaimedKind(s) ==
    LET t == Strip(s)
    IN  IF t = <<>> THEN MsgEmpty
        ELSE IF t[Len(t)] \notin {"A", "a", "W", "w"} THEN MsgBadSuffix
        ELSE IF ~PrefixIsReal(t) THEN MsgBadNumber
        ELSE MsgValid

\* C6: the validator reports EmptyInput for a string that is blank after trimming,
\* else BadSuffix for one not ending in A or W (any case), else BadNumber for one whose
\* prefix is not a real number, else valid; "5A", "10.5W" valid, "" empty, "5" and "5X"
\* bad suffix, "A" bad number.
C6_ValidatorClassification ==
    (probe.fn = "validate" /\ probe.done) =>
        /\ probe.out.msg = ClaimedKind(probe.input)
        /\ probe.out.is_valid = (probe.out.msg = MsgValid)

\* s is an unsigned decimal number followed by one A or W:
\* ^[0-9]+(\.[0-9]+)?[AW]$, case-insensitive
MatchesCcCpPattern(s) ==
    /\ Len(s) >= 2
    /\ s[Len(s)] \in {"A", "a", "W", "w"}
    /\ LET n == DropLast(s)
           points == {i \in 1..Len(n) : n[i] = "."}
       IN  \/ AllDigits(n)
           \/ /\ Cardinality(points) = 1
              /\ \E p \in points :
                    /\ 1 < p
                    /\ p < Len(n)
                    /\ AllDigits(SubSeq(n, 1, p - 1))
                    /\ AllDigits(SubSeq(n, p + 1, Len(n)))

\* C7: the cc_cp string of every stored CC_CV and CC_CD task matches
\* ^[0-9]+(\.[0-9]+)?[AW]$ case-insensitively.
C7_StoredCcCpMatchesPattern ==
    \A i \in 1..Len(tasks_data) :
        tasks_data[i].val.task_type \in {"CC_CV", "CC_CD"} =>
            MatchesCcCpPattern(tasks_data[i].val.cc_cp)

\* p is an initial segment of d
IsPrefix(p, d) == Len(p) <= Len(d) /\ SubSeq(d, 1, Len(p)) = p

\* C8: a cell add with count n grows the cell store by exactly n records under keys
\* that were not in the store, leaves every earlier record in place and unchanged and
\* leaves the task store and counter alone; only reset removes cell records.
C8_CellAddAppendsFreshRecords ==
    /\ last_run.op = "cell_submit" =>
          /\ last_run.num_cells \in 1..20
          /\ Len(cells_data) = Len(before.cells_data) + last_run.num_cells
          /\ IsPrefix(before.cells_data, cells_data)
          /\ \A i \in 1..Len(cells_data) :
                i > Len(before.cells_data) =>
                   cells_data[i].key \notin Keys(before.cells_data)
          /\ \A i, j \in 1..Len(cells_data) :
                i # j => cells_data[i].key # cells_data[j].key
          /\ tasks_data = before.tasks_data
          /\ task_counter = before.task_counter
    /\ last_run.op # "reset" => IsPrefix(before.cells_data, cells_data)

C8_Witness ==
    /\ last_run.op = "cell_submit"
    /\ before.cells_data # <<>>
    /\ Len(cells_data) = Len(before.cells_data) + 1
    /\ cells_data[1].val.cell_type = cells_data[2].val.cell_type
    /\ tasks_data # <<>>

\* the spellings of the tag LFP in every letter case
LfpSpellings ==
    {<<a, b, c>> : a \in {"L", "l"}, b \in {"F", "f"}, c \in {"P", "p"}}

\* the preset the claim assigns to a chemistry tag
ClaimedPreset(tag) ==
    IF tag \in LfpSpellings
    THEN [voltage |-> 32, min_voltage |-> 28, max_voltage |-> 36]
    ELSE [voltage |-> 36, min_voltage |-> 32, max_voltage |-> 40]

\* tags the preset function is evaluated on: the selectbox options, their other
\* spellings and tags that are no option
PresetTags ==
    CellTypes \cup LfpSpellings
        \cup {Lower(TagNMC), Lower(TagLTO), Lower(TagLCO), <<>>, <<"L", "F">>,
              <<"L", "F", "P", "X">>, <<"X">>}

\* C9: every cell record created without the custom voltage override carries the
\* preset of its chemistry: 3.2/2.8/3.6 for LFP in any letter case, 3.6/3.2/4.0 for
\* every other tag; it satisfies min_voltage <= voltage <= max_voltage, and stays as
\* created until reset.
C9_PresetCellsCarryPreset ==
    /\ \A tag \in PresetTags : get_cell_parameters(tag) = ClaimedPreset(tag)
    /\ (last_run.op = "cell_submit" /\ ~last_run.custom_voltage) =>
          \A i \in 1..Len(cells_data) :
             i > Len(before.cells_data) =>
                LET c == cells_data[i].val
                IN  /\ c.cell_type = last_run.cell_type
                    /\ c.voltage = ClaimedPreset(c.cell_type).voltage
                    /\ c.min_voltage = ClaimedPreset(c.cell_type).min_voltage
                    /\ c.max_voltage = ClaimedPreset(c.cell_type).max_voltage
                    /\ c.min_voltage <= c.voltage
                    /\ c.voltage <= c.max_voltage
    /\ last_run.op # "reset" =>
          \A i \in 1..Len(before.cells_data) :
             /\ i <= Len(cells_data)
             /\ cells_data[i].val = before.cells_data[i].val

C9_Witness ==
    /\ last_run.op = "cell_submit"
    /\ ~last_run.custom_voltage
    /\ last_run.cell_type = TagLTO
    /\ Len(before.cells_data) = 1
    /\ before.cells_data[1].val.cell_type = TagLFP
    /\ before.cells_data[1].val.voltage = 32
    /\ cells_data[2].val.voltage = 36

\* the sum of a field over the records at the positions in S
RECURSIVE TotalAt(_, _, _)
TotalAt(cells, field, S) ==
    IF S = {}
    THEN 0
    ELSE LET i == CHOOSE x \in S : TRUE
         IN  cells[i].val[field] + TotalAt(cells, field, S \ {i})

\* C10: with an empty cell store the cells summary yields nothing and no mean is
\* computed; with a non-empty store total_capacity is the sum of the stored
\* capacities and each mean is the sum of its field over the current number of
\* cells; no division by zero occurs in any reachable state.
C10_SummaryNeverDividesByZero ==
    LET summary == CellsSummary(cells_data)
        all == 1..Len(cells_data)
    IN  IF cells_data = <<>>
        THEN ~summary.shown
        ELSE /\ summary.shown
             /\ summary.total_capacity = TotalAt(cells_data, "capacity", all)
             /\ summary.avg_temp.num = TotalAt(cells_data, "temperature", all)
             /\ summary.avg_temp.den = Len(cells_data)
             /\ ~summary.avg_temp.raises
             /\ summary.avg_voltage.num = TotalAt(cells_data, "voltage", all)
             /\ summary.avg_voltage.den = Len(cells_data)
             /\ ~summary.avg_voltage.raises

C10_Witness ==
    /\ last_run.op = "reset"
    /\ cells_data = <<>>
    /\ Len(before.cells_data) = 2
    /\ CellsSummary(before.cells_data).avg_temp = [num |-> 650, den |-> 2, raises |-> FALSE]
    /\ ~CellsSummary(cells_data).shown

\* the mapping json.loads builds from the first n members of a JSON object: a name
\* that occurs again replaces the value read before
RECURSIVE ParseMembers(_, _)
ParseMembers(members, n) ==
    IF n = 0
    THEN <<>>
    ELSE DictSet(ParseMembers(members, n - 1), members[n].name, members[n].value)

\* the mapping json.loads builds from a JSON object
ParseObject(members) == ParseMembers(members, Len(members))

\* the parsed mapping holds, entry by entry and in order, the records of store d
\* under the texts of their keys
SameRecords(parsed, d, text(_)) ==
    /\ Len(parsed) = Len(d)
    /\ \A i \in 1..Len(d) :
          /\ parsed[i].key = text(d[i].key)
          /\ parsed[i].val = d[i].val

\* C11: an export leaves the cell store, the task store and the task counter as they
\* were, and the parsed document's cells and tasks mappings hold exactly the records
\* the stores held when export was called, as many as the stores held, so a deleted
\* task or a record cleared by reset is not in it.
C11_ExportIsSnapshot ==
    last_run.op = "export" =>
        LET cells == ParseObject(last_run.export_json.cells)
            tasks == ParseObject(last_run.export_json.tasks)
        IN  /\ cells_data = before.cells_data
            /\ tasks_data = before.tasks_data
            /\ task_counter = before.task_counter
            /\ SameRecords(cells, before.cells_data, CellKeyString)
            /\ SameRecords(tasks, before.tasks_data, TaskKeyString)
            /\ Len(cells) = Len(cells_data)
            /\ Len(tasks) = Len(tasks_data)
            /\ \A k \in 1..task_counter :
                  k \notin Keys(tasks_data) => TaskKeyString(k) \notin Keys(tasks)

C11_Witness ==
    /\ last_run.op = "export"
    /\ Len(issued) = 3
    /\ Keys(tasks_data) = {1, 3}
    /\ Len(cells_data) = 1
    /\ Keys(ParseObject(last_run.export_json.tasks)) =
          {<<"t", "a", "s", "k", "_", "1">>, <<"t", "a", "s", "k", "_", "3">>}
    /\ Keys(ParseObject(last_run.export_json.cells)) =
          {<<"c", "e", "l", "l", "_", "1", "_", "l", "f", "p">>}

====
